---------------------------- MODULE Spec2Model ----------------------------
(***************************************************************************)
(* TileDB-SOMA: the group wrapper TileDBGroup (apis/python/src/tiledbsc/   *)
(* tiledb_group.py) and the ingestion class SCGroup (util/mSCGroup.py),    *)
(* over an abstract storage engine.                                        *)
(*                                                                         *)
(* A URI is a sequence of path segments: os.path.join appends a segment,   *)
(* os.path.basename takes the last one.  The storage engine (tiledb) is    *)
(* not part of the sources; its primitives are modelled from section 4.2   *)
(* of the specification (Group Container) and carry the prefix Engine.     *)
(***************************************************************************)
EXTENDS Integers, Sequences, FiniteSets, TLC

VARIABLES
    groups,        \* storage: URI of every existing group -> its member list
    arrays,        \* storage: URI of every existing array -> its cells
    tiledb_group,  \* TileDBGroup.tiledb_group: "None", or the open mode
    open_handles,  \* engine handles an SCGroup operation left open
    anndata,       \* the dataset the SCGroup object ingests
    last           \* the last call: its name, arguments, outcome, result

vars == <<groups, arrays, tiledb_group, open_handles, anndata, last>>

\* ------------------------------------------------------------------ bounds

MaxMembers == 2
MaxDim == 2
MaxKeys == 2
MaxVal == 1
MaxCols == 2

\* -------------------------------------------------------------------- URIs

path_join(uri, name) == Append(uri, name)

basename(uri) == IF Len(uri) = 0 THEN "" ELSE uri[Len(uri)]

\* ------------------------------------------------ storage engine (tiledb)

Member(name, uri) == [name |-> name, uri |-> uri]

EngineObjectType(G, A, uri) ==
    IF uri \in DOMAIN G THEN "group"
    ELSE IF uri \in DOMAIN A THEN "array"
    ELSE "none"

\* tiledb.group_create(uri)
EngineGroupCreate(G, A, uri) ==
    IF EngineObjectType(G, A, uri) # "none"
    THEN [err |-> "AlreadyExists", groups |-> G]
    ELSE [err |-> "ok", groups |-> G @@ (uri :> <<>>)]

\* tiledb.Group(uri, mode)
EngineGroupOpen(G, uri, mode) ==
    IF uri \in DOMAIN G THEN [err |-> "ok", mode |-> mode]
    ELSE [err |-> "NotFound", mode |-> "None"]

EngineConflict(G, uri, muri, name) ==
    \E k \in 1..Len(G[uri]) : G[uri][k].name = name \/ G[uri][k].uri = muri

\* tiledb.Group.add(uri=muri, relative=False, name=name) on a handle of the
\* group at uri opened with mode.  dup is what the engine build does with
\* a member whose name or URI the group already holds.  The member list is
\* that of the Group of section 3: a member is in it once add has returned
\* (an engine's buffering of the additions until close is not modelled).
EngineGroupAdd(G, uri, mode, muri, name, dup) ==
    IF mode # "w"
    THEN [err |-> "NotOpenForWrite", groups |-> G]
    ELSE IF EngineConflict(G, uri, muri, name) /\ dup = "reject"
    THEN [err |-> "DuplicateMember", groups |-> G]
    ELSE [err |-> "ok",
          groups |-> [G EXCEPT ![uri] = Append(@, Member(name, muri))]]

DupOutcomes == {"reject", "append"}

\* ------------------------------------------------------------ TileDBGroup

GroupUri == <<"g">>

MemberUris == {<<"g", "x">>, <<"h", "x">>, <<"g", "y">>}

MemberNames == {"x", "y"}

Modes == {"r", "w"}

NoCall ==
    [op |-> "init", mode |-> "", uri |-> <<>>, name |-> "", res |-> "ok",
     uris |-> <<>>, names |-> <<>>, map |-> <<>>, done |-> 0]

Call(op, res) == [NoCall EXCEPT !.op = op, !.res = res]

\* TileDBGroup.exists
exists == EngineObjectType(groups, arrays, GroupUri) = "group"

\* TileDBGroup.create, as a function of the state: the error and the groups
create_result ==
    IF tiledb_group # "None"
    THEN [err |-> "Attempt to create an already-open group", groups |-> groups]
    ELSE EngineGroupCreate(groups, arrays, GroupUri)

\* TileDBGroup.open(mode), as a function of the state
open_result(mode) ==
    IF tiledb_group # "None"
    THEN [err |-> "Attempt to open an already-open group",
          groups |-> groups, handle |-> tiledb_group]
    ELSE LET c == IF ~exists THEN create_result
                  ELSE [err |-> "ok", groups |-> groups]
         IN  IF c.err # "ok"
             THEN [err |-> c.err, groups |-> c.groups, handle |-> "None"]
             ELSE LET o == EngineGroupOpen(c.groups, GroupUri, mode)
                  IN  [err |-> o.err, groups |-> c.groups, handle |-> o.mode]

create ==
    /\ groups' = create_result.groups
    /\ last' = Call("create", create_result.err)
    /\ UNCHANGED <<arrays, tiledb_group, open_handles, anndata>>

open ==
    \E mode \in Modes :
        LET r == open_result(mode) IN
        /\ groups' = r.groups
        /\ tiledb_group' = r.handle
        /\ last' = [Call("open", r.err) EXCEPT !.mode = mode]
        /\ UNCHANGED <<arrays, open_handles, anndata>>

close ==
    /\ IF tiledb_group = "None"
       THEN /\ last' = Call("close", "Attempt to close a non-open group")
            /\ UNCHANGED tiledb_group
       ELSE /\ tiledb_group' = "None"
            /\ last' = Call("close", "ok")
    /\ UNCHANGED <<groups, arrays, open_handles, anndata>>

\* add_result without the check of the handle: the member is added through a
\* write handle of its own
add_result_own_handle(muri, name, dup) ==
    IF GroupUri \notin DOMAIN groups
    THEN [err |-> "NotFound", groups |-> groups]
    ELSE EngineGroupAdd(groups, GroupUri, "w", muri, name, dup)

\* the body shared by add_object and add_uri
add_result(muri, name, dup) ==
    IF tiledb_group = "None"
    THEN [err |-> "Attempt to write to a non-open group", groups |-> groups]
    ELSE EngineGroupAdd(groups, GroupUri, tiledb_group, muri, name, dup)

\* the member lists the model explores hold at most MaxMembers members
WithinBound(G) == \A u \in DOMAIN G : Len(G[u]) <= MaxMembers

add_uri ==
    \E muri \in MemberUris, name \in MemberNames, dup \in DupOutcomes :
        LET r == add_result(muri, name, dup) IN
        /\ WithinBound(r.groups)
        /\ groups' = r.groups
        /\ last' = [Call("add_uri", r.err) EXCEPT !.uri = muri, !.name = name]
        /\ UNCHANGED <<arrays, tiledb_group, open_handles, anndata>>

add_object ==
    \E obj \in [uri : MemberUris, name : MemberNames], dup \in DupOutcomes :
        LET r == add_result(obj.uri, obj.name, dup) IN
        /\ WithinBound(r.groups)
        /\ groups' = r.groups
        /\ last' = [Call("add_object", r.err) EXCEPT !.uri = obj.uri,
                                                      !.name = obj.name]
        /\ UNCHANGED <<arrays, tiledb_group, open_handles, anndata>>

\* TileDBGroup.get_member_uris, as a function of the state.  fail: the
\* engine raises while the members are enumerated.
get_member_uris_result(fail) ==
    LET o == open_result("r") IN
    IF o.err # "ok"
    THEN [err |-> o.err, groups |-> o.groups, handle |-> o.handle,
          uris |-> <<>>]
    ELSE IF fail
    THEN [err |-> "IOError", groups |-> o.groups, handle |-> o.handle,
          uris |-> <<>>]
    ELSE [err |-> "ok", groups |-> o.groups, handle |-> "None",
          uris |-> [k \in 1..Len(o.groups[GroupUri]) |->
                        o.groups[GroupUri][k].uri]]

\* the dict built by get_member_names_to_uris from the enumerated URIs:
\* retval[basename(e.uri)] = e.uri, a later entry replacing an earlier one
names_to_uris(uris) ==
    LET keys == {basename(uris[k]) : k \in 1..Len(uris)}
        lastOf(n) == CHOOSE k \in 1..Len(uris) :
                        /\ basename(uris[k]) = n
                        /\ \A j \in 1..Len(uris) :
                              basename(uris[j]) = n => j <= k
    IN  [n \in keys |-> uris[lastOf(n)]]

get_member_uris ==
    \E fail \in BOOLEAN :
        LET r == get_member_uris_result(fail) IN
        /\ groups' = r.groups
        /\ tiledb_group' = r.handle
        /\ last' = [Call("get_member_uris", r.err) EXCEPT !.uris = r.uris]
        /\ UNCHANGED <<arrays, open_handles, anndata>>

get_member_names ==
    \E fail \in BOOLEAN :
        LET r == get_member_uris_result(fail) IN
        /\ groups' = r.groups
        /\ tiledb_group' = r.handle
        /\ last' = [Call("get_member_names", r.err) EXCEPT
                        !.names = [k \in 1..Len(r.uris) |-> basename(r.uris[k])]]
        /\ UNCHANGED <<arrays, open_handles, anndata>>

get_member_names_to_uris ==
    \E fail \in BOOLEAN :
        LET r == get_member_uris_result(fail) IN
        /\ groups' = r.groups
        /\ tiledb_group' = r.handle
        /\ last' = [Call("get_member_names_to_uris", r.err) EXCEPT
                        !.map = names_to_uris(r.uris)]
        /\ UNCHANGED <<arrays, open_handles, anndata>>

\* ---------------------------------------------------------------- SCGroup

SomaUri == <<"soma">>

ObsLabels == <<"o1", "o2", "o3", "o4">>

VarLabels == <<"v1", "v2", "v3", "v4">>

KeyNames == <<"k1", "k2", "k3", "k4">>

Collections == {"obsm", "varm", "obsp", "varp"}

\* numpy.meshgrid(x, y), indexing "xy": two arrays of shape (len(y), len(x))
meshgrid(x, y) ==
    [first  |-> [p \in (1..Len(y)) \X (1..Len(x)) |-> x[p[2]]],
     second |-> [p \in (1..Len(y)) \X (1..Len(x)) |-> y[p[1]]],
     nrows  |-> Len(y),
     ncols  |-> Len(x)]

\* numpy.ravel / ndarray.flatten of an nrows x ncols array, row-major
ravel(M, nrows, ncols) ==
    [k \in 1..(nrows * ncols) |->
        M[<<((k - 1) \div ncols) + 1, ((k - 1) % ncols) + 1>>]]

\* A[d1, d2] = values on a sparse array: one cell per coordinate pair, a
\* later value replacing an earlier one at the same coordinates
sparse_cells(d1, d2, values) ==
    LET coords == {<<d1[k], d2[k]>> : k \in 1..Len(d1)}
        lastAt(c) == CHOOSE k \in 1..Len(d1) :
                        /\ <<d1[k], d2[k]>> = c
                        /\ \A j \in 1..Len(d1) : <<d1[j], d2[j]>> = c => j <= k
    IN  [c \in coords |-> values[lastAt(c)]]

\* the cells write_X stores in X/data
X_cells(ad) ==
    LET grid == meshgrid(ad.obs, ad.var)
        obs_dim == ravel(grid.first, grid.nrows, grid.ncols)
        var_dim == ravel(grid.second, grid.nrows, grid.ncols)
    IN  sparse_cells(obs_dim, var_dim, ravel(ad.X, Len(ad.obs), Len(ad.var)))

Instr(op, uri, h, name, cells) ==
    [op |-> op, uri |-> uri, h |-> h, name |-> name, cells |-> cells]

\* SCGroup.write_X: the engine calls it makes, in order
write_X_program(ad) ==
    LET X_uri == path_join(SomaUri, "X")
        X_data_uri == path_join(X_uri, "data")
    IN  << Instr("group_create", X_uri, "", "", <<>>),
           Instr("Group", X_uri, "X_group", "", <<>>),
           Instr("Array.create", X_data_uri, "", "", <<>>),
           Instr("write", X_data_uri, "", "", X_cells(ad)),
           Instr("add", X_data_uri, "X_group", "data", <<>>),
           Instr("close", X_uri, "X_group", "", <<>>) >>

\* SCGroup.write_obs_or_var
write_obs_or_var_program(data, name) ==
    << Instr("from_pandas", path_join(SomaUri, name), "", "", data) >>

\* SCGroup.write_annotation_matrices: the loop over the keys
RECURSIVE write_components(_, _, _)
write_components(subgroup_uri, keys, h) ==
    IF keys = <<>> THEN <<>>
    ELSE LET component_array_uri == path_join(subgroup_uri, Head(keys))
         IN  << Instr("from_numpy", component_array_uri, "", "", <<>>),
                Instr("add", component_array_uri, h, Head(keys), <<>>) >>
             \o write_components(subgroup_uri, Tail(keys), h)

write_annotation_matrices_program(keys, name) ==
    LET subgroup_uri == path_join(SomaUri, name)
    IN  << Instr("group_create", subgroup_uri, "", "", <<>>),
           Instr("Group", subgroup_uri, name, "", <<>>) >>
        \o write_components(subgroup_uri, keys, name)
        \o << Instr("close", subgroup_uri, name, "", <<>>) >>

\* annotation_program without the test of len(keys) > 0
annotation_program_unguarded(ad, name) ==
    write_annotation_matrices_program(ad[name], name)
    \o << Instr("add", path_join(SomaUri, name), "base_group", name, <<>>) >>

\* write_tiledb_group: one annotation collection, written if it has keys
annotation_program(ad, name) ==
    IF Len(ad[name]) > 0
    THEN write_annotation_matrices_program(ad[name], name)
         \o << Instr("add", path_join(SomaUri, name), "base_group", name, <<>>) >>
    ELSE <<>>

\* SCGroup.write_tiledb_group after the creation of the root group
write_children_program(ad) ==
    << Instr("Group", SomaUri, "base_group", "", <<>>) >>
    \o write_X_program(ad)
    \o << Instr("add", path_join(SomaUri, "X"), "base_group", "X", <<>>) >>
    \o write_obs_or_var_program(ad.obs, "obs")
    \o << Instr("add", path_join(SomaUri, "obs"), "base_group", "obs", <<>>) >>
    \o write_obs_or_var_program(ad.var, "var")
    \o << Instr("add", path_join(SomaUri, "var"), "base_group", "var", <<>>) >>
    \o annotation_program(ad, "obsm")
    \o annotation_program(ad, "varm")
    \o annotation_program(ad, "obsp")
    \o annotation_program(ad, "varp")
    \o << Instr("close", SomaUri, "base_group", "", <<>>) >>

\* write_tiledb_group_program creating the root group only where none is
write_tiledb_group_program_create_if_missing(ad) ==
    (IF SomaUri \in DOMAIN groups THEN <<>>
     ELSE << Instr("group_create", SomaUri, "", "", <<>>) >>)
    \o write_children_program(ad)

\* SCGroup.write_tiledb_group: the engine calls it makes, in order
write_tiledb_group_program(ad) ==
    << Instr("group_create", SomaUri, "", "", <<>>) >>
    \o write_children_program(ad)

\* one engine call on the storage s.groups, s.arrays with the handles
\* s.handles (handle name -> URI of the group opened for write)
EngineStep(s, ins) ==
    CASE ins.op = "group_create" ->
            LET r == EngineGroupCreate(s.groups, s.arrays, ins.uri)
            IN  [s EXCEPT !.err = r.err, !.groups = r.groups]
      [] ins.op = "Group" ->
            LET r == EngineGroupOpen(s.groups, ins.uri, "w")
            IN  IF r.err # "ok" THEN [s EXCEPT !.err = r.err]
                ELSE [s EXCEPT !.handles = @ @@ (ins.h :> ins.uri)]
      [] ins.op \in {"Array.create", "from_pandas", "from_numpy"} ->
            IF EngineObjectType(s.groups, s.arrays, ins.uri) # "none"
            THEN [s EXCEPT !.err = "AlreadyExists"]
            ELSE [s EXCEPT !.arrays = @ @@ (ins.uri :> ins.cells)]
      [] ins.op = "write" ->
            IF ins.uri \notin DOMAIN s.arrays
            THEN [s EXCEPT !.err = "NotFound"]
            ELSE [s EXCEPT !.arrays[ins.uri] = ins.cells]
      [] ins.op = "add" ->
            LET r == EngineGroupAdd(s.groups, s.handles[ins.h], "w",
                                    ins.uri, ins.name, "reject")
            IN  [s EXCEPT !.err = r.err, !.groups = r.groups]
      [] ins.op = "close" ->
            [s EXCEPT !.handles =
                [h \in (DOMAIN @) \ {ins.h} |-> s.handles[h]]]

\* the calls of prog from the i-th on, in order; the first call that
\* raises ends the run (nothing catches it): a call raises when the engine
\* refuses it, or, it being the failAt-th, breaks down
RECURSIVE run_calls(_, _, _, _)
run_calls(prog, i, s, failAt) ==
    IF i > Len(prog) THEN [s EXCEPT !.done = Len(prog)]
    ELSE LET t == EngineStep(s, prog[i])
         IN  IF t.err # "ok" THEN [s EXCEPT !.err = t.err, !.done = i - 1]
             ELSE IF i = failAt
             THEN [s EXCEPT !.err = "IOError", !.done = i - 1]
             ELSE run_calls(prog, i + 1, t, failAt)

\* run_program undoing, when a call raises, what the earlier calls wrote
run_program_rollback(prog, i, s, failAt) ==
    LET r == run_calls(prog, i, s, failAt)
    IN  IF r.err = "ok" THEN r
        ELSE [s EXCEPT !.err = r.err, !.done = r.done]

\* an SCGroup method running its calls: no handler, no cleanup
run_program(prog, i, s, failAt) == run_calls(prog, i, s, failAt)

Storage ==
    [groups |-> groups, arrays |-> arrays, handles |-> <<>>, err |-> "ok",
     done |-> 0]

\* the calls at which an engine breakdown is considered
FailPoints(prog) == {0} \cup {i \in 1..Len(prog) : prog[i].op # "close"}

write_tiledb_group ==
    \E prog \in {write_tiledb_group_program(anndata)} :
    \E failAt \in FailPoints(prog) :
    \E r \in {run_program(prog, 1, Storage, failAt)} :
            /\ groups' = r.groups
            /\ arrays' = r.arrays
            /\ open_handles' =
                  open_handles \cup {r.handles[h] : h \in DOMAIN r.handles}
            /\ last' = [Call("write_tiledb_group", r.err) EXCEPT
                            !.done = r.done]
            /\ UNCHANGED <<tiledb_group, anndata>>

write_X ==
    \E prog \in {write_X_program(anndata)} :
    \E failAt \in FailPoints(prog) :
    \E r \in {run_program(prog, 1, Storage, failAt)} :
            /\ groups' = r.groups
            /\ arrays' = r.arrays
            /\ open_handles' =
                  open_handles \cup {r.handles[h] : h \in DOMAIN r.handles}
            /\ last' = [Call("write_X", r.err) EXCEPT !.done = r.done]
            /\ UNCHANGED <<tiledb_group, anndata>>

\* the datasets: R observations, C variables, an R x C matrix X and the
\* keys of the four annotation collections
Keys == {SubSeq(KeyNames, 1, n) : n \in 0..MaxKeys}

Dataset(R, C, X, obsm, varm, obsp, varp) ==
    [obs |-> SubSeq(ObsLabels, 1, R), var |-> SubSeq(VarLabels, 1, C),
     X |-> X, obsm |-> obsm, varm |-> varm, obsp |-> obsp, varp |-> varp]

IndexMatrix(R, C) == [p \in (1..R) \X (1..C) |-> (p[1] - 1) * C + p[2]]

\* for write_tiledb_group: a MaxDim x C matrix and every choice of keys
DatasetsAssemble(dim) ==
    {Dataset(dim, C, IndexMatrix(dim, C), om, vm, op, vp) :
        C \in 1..dim, om \in Keys, vm \in Keys, op \in Keys, vp \in Keys}

\* for write_X: every R x C matrix over 0..MaxVal, no annotation matrices
DatasetsX(dim, val) ==
    UNION {{Dataset(R, C, X, <<>>, <<>>, <<>>, <<>>) :
               X \in [(1..R) \X (1..C) -> 0..val]} :
           R \in 1..dim, C \in 1..dim}

NoData == Dataset(0, 0, <<>>, <<>>, <<>>, <<>>, <<>>)

InitStorage ==
    /\ groups = <<>>
    /\ arrays = <<>>
    /\ tiledb_group = "None"
    /\ open_handles = {}
    /\ last = NoCall

Init == InitStorage /\ anndata = NoData

InitAssemble == InitStorage /\ anndata \in DatasetsAssemble(MaxDim)

InitX == InitStorage /\ anndata \in DatasetsX(MaxDim, MaxVal)

Next ==
    \/ create
    \/ open
    \/ close
    \/ add_uri
    \/ add_object
    \/ get_member_uris
    \/ get_member_names
    \/ get_member_names_to_uris

Spec == Init /\ [][Next]_vars

NextAssemble == write_tiledb_group

SpecAssemble == InitAssemble /\ [][NextAssemble]_vars

NextX == write_X

SpecX == InitX /\ [][NextX]_vars

\* -------------------------------------------- SCGroup.decategoricalize

\* A dataframe (anndata.obs, anndata.var) is an index of labels and a list
\* of columns.  A column of dtype "category" holds codes into its
\* categories (0-based, -1 for a missing value) and no values of its own;
\* any other column holds its values and no codes.

ColumnNames == <<"c1", "c2", "c3", "c4">>

Categories == <<"a", "b">>

CategoricalColumn(name, codes) ==
    [name |-> name, dtype |-> "category", codes |-> codes,
     categories |-> Categories, values |-> <<>>]

ObjectColumn(name, values) ==
    [name |-> name, dtype |-> "object", codes |-> <<>>, categories |-> <<>>,
     values |-> values]

\* Series.astype("O") of a categorical column: the decoded values
astype_object(x) ==
    ObjectColumn(x.name,
                 [i \in 1..Len(x.codes) |->
                     IF x.codes[i] = -1 THEN "NaN"
                     ELSE x.categories[x.codes[i] + 1]])

\* uncat = lambda x: x.astype("O") if isinstance(x.dtype, CategoricalDtype)
\*                   else x
uncat(x) == IF x.dtype = "category" THEN astype_object(x) ELSE x

\* DataFrame.items(): the columns in order, each a Series carrying the
\* index of the frame
items(df) ==
    [k \in 1..Len(df.columns) |-> [index |-> df.index, col |-> df.columns[k]]]

\* pd.DataFrame.from_dict of a dict of Series: the index of the frame is
\* that of the Series, and is empty when there is none
from_dict(series) ==
    [index   |-> IF Len(series) = 0 THEN <<>> ELSE series[1].index,
     columns |-> [k \in 1..Len(series) |-> series[k].col]]

\* {k: uncat(v) for k, v in df.items()}
uncat_items(df) ==
    [k \in 1..Len(df.columns) |->
        [index |-> items(df)[k].index, col |-> uncat(items(df)[k].col)]]

\* the shape of the matrix X
n_obs(X) == Cardinality({p[1] : p \in DOMAIN X})

n_vars(X) == Cardinality({p[2] : p \in DOMAIN X})

\* ad.AnnData(X=, obs=, var=, obsm=, obsp=, varm=, varp=): raises when the
\* rows of obs or of var are not as many as the rows or columns of X
AnnData(X, obs, var, obsm, obsp, varm, varp) ==
    IF Len(obs.index) # n_obs(X) \/ Len(var.index) # n_vars(X)
    THEN [err |-> "ValueError", anndata |-> <<>>]
    ELSE [err |-> "ok",
          anndata |-> [obs |-> obs, var |-> var, X |-> X, obsm |-> obsm,
                       varm |-> varm, obsp |-> obsp, varp |-> varp]]

\* uncat over the entries of an annotation collection: the matrices are
\* numpy arrays or sparse matrices, whose dtype is never categorical
uncat_matrices(keys) == keys

\* SCGroup.decategoricalize(anndata): the error and the dataset returned
decategoricalize_result(ad) ==
    LET obs == from_dict(uncat_items(ad.obs))
        var == from_dict(uncat_items(ad.var))
    IN  AnnData(ad.X, obs, var, uncat_matrices(ad.obsm),
                uncat_matrices(ad.obsp), uncat_matrices(ad.varm),
                uncat_matrices(ad.varp))

\* the caller (from_h5ad, from_10x) rebinds anndata to the result; an
\* exception leaves it as it was
decategoricalize ==
    \E r \in {decategoricalize_result(anndata)} :
        /\ anndata' = IF r.err = "ok" THEN r.anndata ELSE anndata
        /\ last' = Call("decategoricalize", r.err)
        /\ UNCHANGED <<groups, arrays, tiledb_group, open_handles>>

\* the columns over n rows: categorical ones over every choice of codes,
\* plain ones over every choice of values
Columns(name, n) ==
    {CategoricalColumn(name, codes) : codes \in [1..n -> {-1, 0, 1}]}
    \cup {ObjectColumn(name, values) : values \in [1..n -> {"a", "b"}]}

RECURSIVE ColumnLists(_, _)
ColumnLists(k, n) ==
    IF k = 0 THEN {<<>>}
    ELSE {Append(cs, c) : cs \in ColumnLists(k - 1, n),
                          c \in Columns(ColumnNames[k], n)}

\* the dataframes with the first n of labels as index and up to cols columns
Frames(labels, n, cols) ==
    {[index |-> SubSeq(labels, 1, n), columns |-> cs] :
        cs \in UNION {ColumnLists(k, n) : k \in 0..cols}}

DatasetsNormalize(dim, cols) ==
    UNION {{[obs |-> o, var |-> v, X |-> IndexMatrix(R, 1), obsm |-> om,
             varm |-> <<>>, obsp |-> <<>>, varp |-> <<>>] :
               o \in Frames(ObsLabels, R, cols),
               v \in Frames(VarLabels, 1, cols - 1),
               om \in Keys} :
           R \in 1..dim}

InitNormalize == InitStorage /\ anndata \in DatasetsNormalize(MaxDim, MaxCols)

NextNormalize == decategoricalize

SpecNormalize == InitNormalize /\ [][NextNormalize]_vars

\* ------------------------------------------------------------- properties

ListingOps == {"get_member_uris", "get_member_names", "get_member_names_to_uris"}

AddOps == {"add_uri", "add_object"}

XDataUri == path_join(path_join(SomaUri, "X"), "data")

\* C1: after write_X on a dataset with R observation labels, C variable
\* labels and an R x C matrix X, the cell of X/data at (obs label i,
\* var label j) holds X[i][j], for every i and j
C1_CellsHoldX ==
    (last.op = "write_X" /\ last.res = "ok") =>
        \A i \in 1..Len(anndata.obs), j \in 1..Len(anndata.var) :
            /\ <<anndata.obs[i], anndata.var[j]>> \in DOMAIN arrays[XDataUri]
            /\ arrays[XDataUri][<<anndata.obs[i], anndata.var[j]>>]
                  = anndata.X[<<i, j>>]

\* C2: open with mode read on a closed handle whose location holds no
\* group fails with NotFound, creates no group and leaves the handle closed
C2_OpenReadMissingFails ==
    [][(/\ last'.op = "open"
        /\ last'.mode = "r"
        /\ tiledb_group = "None"
        /\ GroupUri \notin DOMAIN groups)
       => (/\ last'.res = "NotFound"
           /\ groups' = groups
           /\ tiledb_group' = "None")]_vars

\* C3: listing the members of a group changes neither the set of existing
\* groups nor any group's member list, also where no group exists
C3_ListingHasNoSideEffect ==
    [][last'.op \in ListingOps =>
          (DOMAIN groups' = DOMAIN groups /\ groups' = groups)]_vars

\* C4: add_object / add_uri succeed only on a handle open in write mode;
\* on a closed handle or one open in read mode the call fails, as not open
\* for write, and the member list is unchanged
C4_AddNeedsWriteMode ==
    [][last'.op \in AddOps =>
          /\ last'.res = "ok" => tiledb_group = "w"
          /\ tiledb_group # "w" =>
                /\ last'.res \in {"Attempt to write to a non-open group",
                                   "NotOpenForWrite"}
                /\ groups' = groups]_vars

C4_AddRefusedInReadMode ==
    /\ last.op \in AddOps
    /\ tiledb_group = "r"
    /\ last.res = "NotOpenForWrite"

NamesUnique(G) ==
    \A u \in DOMAIN G : \A j, k \in 1..Len(G[u]) :
        G[u][j].name = G[u][k].name => j = k

\* C5: adding a member whose name a member of the open group already has
\* fails with DuplicateMember and leaves the member list unchanged; after
\* any add no two members of a group share a name
C5_DuplicateNameRefused ==
    [][last'.op \in AddOps =>
          /\ (/\ tiledb_group = "w"
              /\ \E k \in 1..Len(groups[GroupUri]) :
                    groups[GroupUri][k].name = last'.name)
             => (last'.res = "DuplicateMember" /\ groups' = groups)
          /\ NamesUnique(groups')]_vars

\* C6: every group handle an operation opens is closed again when the
\* operation returns or fails: no SCGroup write leaves an engine handle
\* open, and a listing call that opened the handle leaves it closed
C6_HandlesClosedOnExit ==
    /\ open_handles = {}
    /\ (last.op \in ListingOps
        /\ last.res # "Attempt to open an already-open group")
       => tiledb_group = "None"

\* C7: write_tiledb_group into a location that already holds a group fails
\* as already existing before any call after the first has run, and the
\* groups and arrays in storage are the same after the call as before
C7_ExistingTargetRefused ==
    [][(last'.op = "write_tiledb_group" /\ SomaUri \in DOMAIN groups) =>
          /\ last'.res = "AlreadyExists"
          /\ last'.done = 0
          /\ groups' = groups
          /\ arrays' = arrays]_vars

C7_RefusedOverMembers ==
    /\ last.op = "write_tiledb_group"
    /\ last.res = "AlreadyExists"
    /\ SomaUri \in DOMAIN groups
    /\ Len(groups[SomaUri]) > 0

MemberNamesOf(G, uri) == {G[uri][k].name : k \in 1..Len(G[uri])}

\* C8: after a successful write_tiledb_group the root group's members are
\* exactly X, obs, var and each of obsm, varm, obsp, varp that has a key; a
\* collection without keys has neither a sub-group nor a root member, and
\* the sub-group of one with keys has exactly one member per key
C8_RootMembers ==
    (last.op = "write_tiledb_group" /\ last.res = "ok") =>
        LET present == {c \in Collections : Len(anndata[c]) > 0} IN
        /\ SomaUri \in DOMAIN groups
        /\ MemberNamesOf(groups, SomaUri) = {"X", "obs", "var"} \cup present
        /\ Len(groups[SomaUri]) = 3 + Cardinality(present)
        /\ \A c \in Collections \ present :
              path_join(SomaUri, c) \notin DOMAIN groups
        /\ \A c \in present :
              LET sub == path_join(SomaUri, c) IN
              /\ sub \in DOMAIN groups
              /\ Len(groups[sub]) = Len(anndata[c])
              /\ \A k \in 1..Len(anndata[c]) :
                    \E i \in 1..Len(groups[sub]) :
                        groups[sub][i] =
                            Member(anndata[c][k], path_join(sub, anndata[c][k]))

C8_SomeCollectionsEmpty ==
    /\ last.op = "write_tiledb_group"
    /\ last.res = "ok"
    /\ Len(anndata.obsm) > 0
    /\ Len(anndata.varp) = 0

\* the group an add call of prog writes to: the one its handle was opened on
GroupOfHandle(prog, h) ==
    LET k == CHOOSE k \in 1..Len(prog) : prog[k].op = "Group" /\ prog[k].h = h
    IN  prog[k].uri

\* what a completed call leaves in the storage G, A
Effected(G, A, prog, ins) ==
    CASE ins.op = "group_create" -> ins.uri \in DOMAIN G
      [] ins.op = "Array.create" -> ins.uri \in DOMAIN A
      [] ins.op \in {"from_pandas", "from_numpy", "write"} ->
            ins.uri \in DOMAIN A /\ A[ins.uri] = ins.cells
      [] ins.op = "add" ->
            LET g == GroupOfHandle(prog, ins.h) IN
            /\ g \in DOMAIN G
            /\ \E k \in 1..Len(G[g]) : G[g][k] = Member(ins.name, ins.uri)
      [] OTHER -> TRUE

\* the storage G, A shows no trace of the call
NotEffected(G, A, prog, ins) ==
    CASE ins.op = "group_create" -> ins.uri \notin DOMAIN G
      [] ins.op \in {"Array.create", "from_pandas", "from_numpy"} ->
            ins.uri \notin DOMAIN A
      [] ins.op = "write" ->
            ins.uri \in DOMAIN A => A[ins.uri] = <<>>
      [] ins.op = "add" ->
            LET g == GroupOfHandle(prog, ins.h) IN
            g \in DOMAIN G =>
                \A k \in 1..Len(G[g]) : G[g][k] # Member(ins.name, ins.uri)
      [] OTHER -> TRUE

C10_NamesAsAdded ==
    /\ (last.op = "get_member_names" /\ last.res = "ok") =>
          \A k \in 1..Len(groups[GroupUri]) :
              \E i \in 1..Len(last.names) :
                  last.names[i] = groups[GroupUri][k].name
    /\ (last.op = "get_member_names_to_uris" /\ last.res = "ok") =>
          /\ \A k \in 1..Len(groups[GroupUri]) :
                /\ groups[GroupUri][k].name \in DOMAIN last.map
                /\ last.map[groups[GroupUri][k].name] = groups[GroupUri][k].uri
          /\ Cardinality(DOMAIN last.map) = Len(groups[GroupUri])


\* the dataframe out is df with every categorical column replaced by its
\* decoded values and everything else as it was
FrameNormalized(df, out) ==
    /\ out.index = df.index
    /\ Len(out.columns) = Len(df.columns)
    /\ \A k \in 1..Len(df.columns) :
          LET c == df.columns[k]
              o == out.columns[k]
          IN  IF c.dtype = "category"
              THEN /\ o.name = c.name
                   /\ o.dtype = "object"
                   /\ Len(o.values) = Len(c.codes)
                   /\ \A i \in 1..Len(c.codes) :
                         o.values[i] = IF c.codes[i] = -1 THEN "NaN"
                                       ELSE c.categories[c.codes[i] + 1]
              ELSE o = c

\* C11: decategoricalize returns, for every dataset, the dataset with every
\* categorical obs/var column replaced by its decoded values and every other
\* column and matrix unchanged, and applied to its own result it returns
\* that result
C11_NormalizeIdempotent ==
    [][last'.op = "decategoricalize" =>
          /\ last'.res = "ok"
          /\ FrameNormalized(anndata.obs, anndata'.obs)
          /\ FrameNormalized(anndata.var, anndata'.var)
          /\ anndata'.X = anndata.X
          /\ \A c \in Collections : anndata'[c] = anndata[c]
          /\ decategoricalize_result(anndata').err = "ok"
          /\ decategoricalize_result(anndata').anndata = anndata']_vars

=============================================================================
